---- MODULE Spec2Model ----
(***************************************************************************)
(* Telemetry emission of the exec source (src/internal_events/exec.rs).    *)
(* Five event types implement InternalEvent::emit(self).  Each emit writes *)
(* one tracing record and then updates counters / a histogram of the       *)
(* metrics registry.  The model keeps the two sinks as state, the calls    *)
(* each emit makes as a sequence in source order, and the ownership of     *)
(* the event values (emit takes self by value).                            *)
(***************************************************************************)
EXTENDS Integers, Sequences, FiniteSets, TLC

VARIABLES
    live,       \* event values constructed and not yet moved into emit
    nextId,     \* number of event values constructed so far
    log,        \* the tracing sink: sequence of records written
    counters,   \* the metrics registry: [name, labels] -> value
    histograms, \* the metrics registry: sequence of histogram observations
    tasks,      \* emit calls in progress: id -> [ev, pc]
    emitted,    \* id -> number of emit calls that took this value
    done,       \* event values whose emit has returned, in completion order
    last        \* the sinks as they were when the latest emit was entered

vars == <<live, nextId, log, counters, histograms, tasks, emitted, done, last>>

-----------------------------------------------------------------------------
(* Bounds and input domains *)

MaxEvents == 2

Commands == {"echo", "ls"}
Counts == {0, 10}
ByteSizes == {0, 256}
ElapsedSeconds == {0, 3600}

None == <<>>
Some(v) == <<v>>

\* std::process::Command values: program and argument list.
CommandSpecs ==
    { [program |-> "echo", args |-> <<>>],
      [program |-> "sleep", args |-> <<"9">>] }

\* std::io::Error values: the optional platform code and the Debug text.
IoErrors ==
    { [code |-> Some("not_found"),
       debug |-> "Os { code: 2, kind: NotFound, message: \"No such file or directory\" }"],
      [code |-> None,
       debug |-> "Custom { kind: Other, error: \"spawn failed\" }"] }

ExitStatuses == {None, Some(0), Some(-12)}

\* std::time::Duration values.
Durations ==
    { [secs |-> 0, nanos |-> 0],
      [secs |-> 1, nanos |-> 1500000] }

\* nix::errno::Errno values: variant name, raw number, desc() text.
Errnos ==
    { [name |-> "EIO", raw |-> 5, desc |-> "I/O error"],
      [name |-> "ESRCH", raw |-> 3, desc |-> "No such process"] }

SignalChildErrors ==
    { [tag |-> "SignalError", errno |-> e] : e \in Errnos }
    \cup { [tag |-> "FailedToMarshalPid",
            err |-> "out of range integral type conversion attempted"],
           [tag |-> "NoPid"] }

-----------------------------------------------------------------------------
(* Formatting *)

Digit(d) ==
    CASE d = 0 -> "0" [] d = 1 -> "1" [] d = 2 -> "2" [] d = 3 -> "3"
      [] d = 4 -> "4" [] d = 5 -> "5" [] d = 6 -> "6" [] d = 7 -> "7"
      [] d = 8 -> "8" [] d = 9 -> "9"

RECURSIVE UnsignedToString(_)
UnsignedToString(n) ==
    IF n < 10 THEN Digit(n)
    ELSE UnsignedToString(n \div 10) \o Digit(n % 10)

\* i32::to_string
IntToString(n) ==
    IF n < 0 THEN "-" \o UnsignedToString(-n) ELSE UnsignedToString(n)

Quoted(s) == "\"" \o s \o "\""

RECURSIVE DebugArgs(_)
DebugArgs(args) ==
    IF args = <<>> THEN ""
    ELSE " " \o Quoted(Head(args)) \o DebugArgs(Tail(args))

\* format!("{:?}", command.as_std())
DebugCommand(cmd) == Quoted(cmd.program) \o DebugArgs(cmd.args)

\* Display of nix::errno::Errno: "{:?}: {}" of the variant and desc()
DisplayErrno(e) == e.name \o ": " \o e.desc

\* Display of tokio::time::error::Elapsed
DisplayElapsed == "deadline has elapsed"

\* Duration::as_millis
AsMillis(d) == d.secs * 1000 + d.nanos \div 1000000

\* The value a Duration hands to histogram!: its whole length (seconds and
\* sub-second part together), held here as a count of nanoseconds.
HistogramValue(d) == d.secs * 1000000000 + d.nanos

-----------------------------------------------------------------------------
(* Error classification (super::prelude) *)

COMMAND_FAILED == "command_failed"
TIMED_OUT == "timed_out"
RECEIVING == "receiving"

io_error_code(error) ==
    IF error.code = None THEN "unknown" ELSE error.code[1]

-----------------------------------------------------------------------------
(* Calls into the two sinks *)

LogCall(level, message, fields) ==
    [op |-> "log", level |-> level, message |-> message, fields |-> fields]

\* Mutant: the record is written one level up.
TraceAsDebug(message, fields) == LogCall("DEBUG", message, fields)

\* trace!(...)
Trace(message, fields) == LogCall("TRACE", message, fields)

\* error!(...)
Error(message, fields) == LogCall("ERROR", message, fields)

\* counter!(name, value, labels...)
Counter(name, value, labels) ==
    [op |-> "counter", name |-> name, value |-> value, labels |-> labels]

\* histogram!(name, value, labels...)
Histogram(name, value, labels) ==
    [op |-> "histogram", name |-> name, value |-> value, labels |-> labels]

-----------------------------------------------------------------------------
(* The emit bodies: the calls each makes, in source order *)

\* Mutant: the byte counter is given the event count.
ExecEventsReceivedEmitCountForBytes(self) ==
    << Trace("Events received.",
             [count |-> UnsignedToString(self.count),
              byte_size |-> UnsignedToString(self.byte_size),
              command |-> self.command]),
       Counter("component_received_events_total", self.count,
               [command |-> self.command]),
       Counter("component_received_event_bytes_total", self.count,
               [command |-> self.command]),
       Counter("events_in_total", self.count,
               [command |-> self.command]) >>

\* count and byte_size are usize; `as u64` widens them without loss.
ExecEventsReceivedEmit(self) ==
    << Trace("Events received.",
             [count |-> UnsignedToString(self.count),
              byte_size |-> UnsignedToString(self.byte_size),
              command |-> self.command]),
       Counter("component_received_events_total", self.count,
               [command |-> self.command]),
       Counter("component_received_event_bytes_total", self.byte_size,
               [command |-> self.command]),
       Counter("events_in_total", self.count,
               [command |-> self.command]) >>

\* Mutant: component_errors_total loses its error_code label.
ExecFailedErrorEmitNoCode(self) ==
    << Error("Unable to exec.",
             [command |-> self.command,
              error |-> self.error.debug,
              error_type |-> COMMAND_FAILED,
              error_code |-> io_error_code(self.error),
              stage |-> RECEIVING]),
       Counter("component_errors_total", 1,
               [command |-> self.command,
                error_type |-> COMMAND_FAILED,
                stage |-> RECEIVING]),
       Counter("processing_errors_total", 1,
               [command |-> self.command,
                error_type |-> COMMAND_FAILED,
                stage |-> RECEIVING]) >>

ExecFailedErrorEmit(self) ==
    << Error("Unable to exec.",
             [command |-> self.command,
              error |-> self.error.debug,
              error_type |-> COMMAND_FAILED,
              error_code |-> io_error_code(self.error),
              stage |-> RECEIVING]),
       Counter("component_errors_total", 1,
               [command |-> self.command,
                error_type |-> COMMAND_FAILED,
                error_code |-> io_error_code(self.error),
                stage |-> RECEIVING]),
       Counter("processing_errors_total", 1,
               [command |-> self.command,
                error_type |-> COMMAND_FAILED,
                stage |-> RECEIVING]) >>

\* Mutant: the deprecated counter is tagged with the other error type.
ExecTimeoutErrorEmitWrongType(self) ==
    << Error("Timeout during exec.",
             [command |-> self.command,
              elapsed_seconds |-> UnsignedToString(self.elapsed_seconds),
              error |-> DisplayElapsed,
              error_type |-> TIMED_OUT,
              stage |-> RECEIVING]),
       Counter("component_errors_total", 1,
               [command |-> self.command,
                error_type |-> TIMED_OUT,
                stage |-> RECEIVING]),
       Counter("processing_errors_total", 1,
               [command |-> self.command,
                error_type |-> COMMAND_FAILED,
                stage |-> RECEIVING]) >>

ExecTimeoutErrorEmit(self) ==
    << Error("Timeout during exec.",
             [command |-> self.command,
              elapsed_seconds |-> UnsignedToString(self.elapsed_seconds),
              error |-> DisplayElapsed,
              error_type |-> TIMED_OUT,
              stage |-> RECEIVING]),
       Counter("component_errors_total", 1,
               [command |-> self.command,
                error_type |-> TIMED_OUT,
                stage |-> RECEIVING]),
       Counter("processing_errors_total", 1,
               [command |-> self.command,
                error_type |-> TIMED_OUT,
                stage |-> RECEIVING]) >>

\* Mutant: an absent exit status renders as the empty text.
exit_status_string_empty(self) ==
    IF self.exit_status # None
    THEN IntToString(self.exit_status[1])
    ELSE ""

exit_status_string(self) ==
    IF self.exit_status # None
    THEN IntToString(self.exit_status[1])
    ELSE "unknown"

\* Mutant: the record carries the duration in whole seconds.
ExecCommandExecutedEmitSeconds(self) ==
    LET exit_status == exit_status_string(self) IN
    << Trace("Executed command.",
             [command |-> self.command,
              exit_status |-> exit_status,
              elapsed_millis |-> UnsignedToString(self.exec_duration.secs)]),
       Counter("command_executed_total", 1,
               [command |-> self.command,
                exit_status |-> exit_status]),
       Histogram("command_execution_duration_seconds",
                 HistogramValue(self.exec_duration),
                 [command |-> self.command,
                  exit_status |-> exit_status]) >>

ExecCommandExecutedEmit(self) ==
    LET exit_status == exit_status_string(self) IN
    << Trace("Executed command.",
             [command |-> self.command,
              exit_status |-> exit_status,
              elapsed_millis |-> UnsignedToString(AsMillis(self.exec_duration))]),
       Counter("command_executed_total", 1,
               [command |-> self.command,
                exit_status |-> exit_status]),
       Histogram("command_execution_duration_seconds",
                 HistogramValue(self.exec_duration),
                 [command |-> self.command,
                  exit_status |-> exit_status]) >>

to_error_code(error) ==
    CASE error.tag = "SignalError" -> "errno_" \o DisplayErrno(error.errno)
      [] error.tag = "FailedToMarshalPid" -> "failed_to_marshal_pid"
      [] error.tag = "NoPid" -> "no_pid"

\* Display of ExecFailedToSignalChildError
DisplaySignalChildError(error) ==
    CASE error.tag = "SignalError" -> "errno: " \o DisplayErrno(error.errno)
      [] error.tag = "FailedToMarshalPid" ->
            "failed to marshal pid to i32: " \o error.err
      [] error.tag = "NoPid" -> "child had no pid"

\* Mutant: the deprecated counter is not updated.
ExecFailedToSignalChildEmitNoDeprecated(self) ==
    << Error("Failed to send SIGTERM to child, aborting early: "
                 \o DisplaySignalChildError(self.error),
             [command |-> DebugCommand(self.command),
              error_code |-> to_error_code(self.error),
              error_type |-> COMMAND_FAILED,
              stage |-> RECEIVING]),
       Counter("component_errors_total", 1,
               [command |-> DebugCommand(self.command),
                error_code |-> to_error_code(self.error),
                error_type |-> COMMAND_FAILED,
                stage |-> RECEIVING]) >>

ExecFailedToSignalChildEmit(self) ==
    << Error("Failed to send SIGTERM to child, aborting early: "
                 \o DisplaySignalChildError(self.error),
             [command |-> DebugCommand(self.command),
              error_code |-> to_error_code(self.error),
              error_type |-> COMMAND_FAILED,
              stage |-> RECEIVING]),
       Counter("component_errors_total", 1,
               [command |-> DebugCommand(self.command),
                error_code |-> to_error_code(self.error),
                error_type |-> COMMAND_FAILED,
                stage |-> RECEIVING]),
       Counter("processing_errors_total", 1,
               [command_code |-> DebugCommand(self.command),
                error |-> to_error_code(self.error),
                error_type |-> COMMAND_FAILED,
                stage |-> RECEIVING]) >>

\* InternalEvent::emit, dispatched on the type of the value
Emit(ev) ==
    CASE ev.kind = "ExecEventsReceived" -> ExecEventsReceivedEmit(ev)
      [] ev.kind = "ExecFailedError" -> ExecFailedErrorEmit(ev)
      [] ev.kind = "ExecTimeoutError" -> ExecTimeoutErrorEmit(ev)
      [] ev.kind = "ExecCommandExecuted" -> ExecCommandExecutedEmit(ev)
      [] ev.kind = "ExecFailedToSignalChild" -> ExecFailedToSignalChildEmit(ev)

-----------------------------------------------------------------------------
(* Event values the caller can construct *)

ExecEventsReceived ==
    [kind : {"ExecEventsReceived"}, count : Counts, command : Commands,
     byte_size : ByteSizes]

ExecFailedError ==
    [kind : {"ExecFailedError"}, command : Commands, error : IoErrors]

ExecTimeoutError ==
    [kind : {"ExecTimeoutError"}, command : Commands,
     elapsed_seconds : ElapsedSeconds]

ExecCommandExecuted ==
    [kind : {"ExecCommandExecuted"}, command : Commands,
     exit_status : ExitStatuses, exec_duration : Durations]

ExecFailedToSignalChild ==
    [kind : {"ExecFailedToSignalChild"}, command : CommandSpecs,
     error : SignalChildErrors]

ErrorKinds == {"ExecFailedError", "ExecTimeoutError", "ExecFailedToSignalChild"}

Events ==
    ExecEventsReceived \cup ExecFailedError \cup ExecTimeoutError
        \cup ExecCommandExecuted \cup ExecFailedToSignalChild

\* One value of each type, for the runs in which emits overlap.
TaskEvents ==
    { [kind |-> "ExecEventsReceived", count |-> 10, command |-> "echo",
       byte_size |-> 256],
      [kind |-> "ExecEventsReceived", count |-> 1, command |-> "echo",
       byte_size |-> 2],
      [kind |-> "ExecFailedError", command |-> "echo",
       error |-> CHOOSE e \in IoErrors : e.code = None],
      [kind |-> "ExecTimeoutError", command |-> "echo",
       elapsed_seconds |-> 3600] }

-----------------------------------------------------------------------------
(* The sinks *)

CounterKey(call) == [name |-> call.name, labels |-> call.labels]

CounterValue(reg, key) == IF key \in DOMAIN reg THEN reg[key] ELSE 0

\* Mutant: the update stores the increment over the value it found.
CounterStore(reg, key, n) == (key :> n) @@ reg

\* Counter::increment: an atomic add on the handle registered for the key
CounterAdd(reg, key, n) ==
    IF key \in DOMAIN reg
    THEN [reg EXCEPT ![key] = @ + n]
    ELSE (key :> n) @@ reg

LogRecord(call) ==
    [level |-> call.level, message |-> call.message, fields |-> call.fields]

Observation(call) ==
    [name |-> call.name, value |-> call.value, labels |-> call.labels]

\* The sinks after one call
ApplyCall(s, call) ==
    CASE call.op = "log" ->
            [s EXCEPT !.log = Append(@, LogRecord(call))]
      [] call.op = "counter" ->
            [s EXCEPT !.counters = CounterAdd(@, CounterKey(call), call.value)]
      [] call.op = "histogram" ->
            [s EXCEPT !.histograms = Append(@, Observation(call))]

RECURSIVE ApplyCalls(_, _)
ApplyCalls(s, calls) ==
    IF calls = <<>> THEN s
    ELSE ApplyCalls(ApplyCall(s, Head(calls)), Tail(calls))

Sinks == [log |-> log, counters |-> counters, histograms |-> histograms]

-----------------------------------------------------------------------------
(* Ownership: emit(self) takes the value; the types derive neither Clone   *)
(* nor Copy, so the caller has nothing left to emit again.                 *)

\* Mutant: emit borrows the value and the caller keeps it.
ConsumeBorrowed(h) == live

Consume(h) == live \ {h}

NoEmit == [id |-> 0]

Init ==
    /\ live = {}
    /\ nextId = 0
    /\ log = <<>>
    /\ counters = <<>>
    /\ histograms = <<>>
    /\ tasks = <<>>
    /\ emitted = <<>>
    /\ done = <<>>
    /\ last = NoEmit

\* The caller builds an event value (all fields are pub).
Construct(ev) ==
    /\ nextId < MaxEvents
    /\ nextId' = nextId + 1
    /\ live' = live \cup {[id |-> nextId + 1, ev |-> ev]}
    /\ emitted' = ((nextId + 1) :> 0) @@ emitted
    /\ UNCHANGED <<log, counters, histograms, tasks, done, last>>

\* A whole emit call, run to completion on the caller's thread.
EmitCall(h) ==
    LET s == ApplyCalls(Sinks, Emit(h.ev)) IN
    /\ live' = Consume(h)
    /\ emitted' = [emitted EXCEPT ![h.id] = @ + 1]
    /\ log' = s.log
    /\ counters' = s.counters
    /\ histograms' = s.histograms
    /\ done' = Append(done, h.ev)
    /\ last' = [id |-> h.id, ev |-> h.ev, log |-> log, counters |-> counters,
                histograms |-> histograms]
    /\ UNCHANGED <<nextId, tasks>>

ConstructEvent == \E ev \in Events : Construct(ev)

EmitEventsReceived ==
    \E h \in live : h.ev.kind = "ExecEventsReceived" /\ EmitCall(h)

EmitFailedError ==
    \E h \in live : h.ev.kind = "ExecFailedError" /\ EmitCall(h)

EmitTimeoutError ==
    \E h \in live : h.ev.kind = "ExecTimeoutError" /\ EmitCall(h)

EmitCommandExecuted ==
    \E h \in live : h.ev.kind = "ExecCommandExecuted" /\ EmitCall(h)

EmitFailedToSignalChild ==
    \E h \in live : h.ev.kind = "ExecFailedToSignalChild" /\ EmitCall(h)

Next ==
    \/ ConstructEvent
    \/ EmitEventsReceived
    \/ EmitFailedError
    \/ EmitTimeoutError
    \/ EmitCommandExecuted
    \/ EmitFailedToSignalChild

Spec == Init /\ [][Next]_vars

-----------------------------------------------------------------------------
(* Emits on several tasks: each call of an emit is one step, and the steps *)
(* of different tasks interleave.                                          *)

ConstructTaskEvent == \E ev \in TaskEvents : Construct(ev)

\* A task enters emit: the value moves into the call.
TaskBegin ==
    \E h \in live :
        /\ live' = Consume(h)
        /\ emitted' = [emitted EXCEPT ![h.id] = @ + 1]
        /\ tasks' = (h.id :> [ev |-> h.ev, pc |-> 1]) @@ tasks
        /\ UNCHANGED <<nextId, log, counters, histograms, done, last>>

\* A task makes its next call; after the last one emit returns.
TaskStep ==
    \E id \in DOMAIN tasks :
        LET t == tasks[id]
            calls == Emit(t.ev)
            s == ApplyCall(Sinks, calls[t.pc])
        IN  /\ log' = s.log
            /\ counters' = s.counters
            /\ histograms' = s.histograms
            /\ IF t.pc < Len(calls)
               THEN /\ tasks' = [tasks EXCEPT ![id].pc = @ + 1]
                    /\ done' = done
               ELSE /\ tasks' = [i \in DOMAIN tasks \ {id} |-> tasks[i]]
                    /\ done' = Append(done, t.ev)
            /\ UNCHANGED <<live, nextId, emitted, last>>

NextTasks == ConstructTaskEvent \/ TaskBegin \/ TaskStep

SpecTasks == Init /\ [][NextTasks]_vars

-----------------------------------------------------------------------------
(* Reading the sinks *)

KeysNamed(reg, name) == {k \in DOMAIN reg : k.name = name}

RECURSIVE SumOver(_, _)
SumOver(reg, keys) ==
    IF keys = {} THEN 0
    ELSE LET k == CHOOSE x \in keys : TRUE
         IN  reg[k] + SumOver(reg, keys \ {k})

\* Total of a metric over all its label sets
Total(reg, name) == SumOver(reg, KeysNamed(reg, name))

Key(name, labels) == [name |-> name, labels |-> labels]

\* What the latest emit added to a counter
Delta(key) == CounterValue(counters, key) - CounterValue(last.counters, key)

DeltaTotal(name) == Total(counters, name) - Total(last.counters, name)

\* Counters the latest emit registered or changed
Changed ==
    {k \in DOMAIN counters :
        k \notin DOMAIN last.counters \/ counters[k] # last.counters[k]}

ChangedNamed(name) == {k \in Changed : k.name = name}

After(kind) == last.id # 0 /\ last.ev.kind = kind

AfterError == last.id # 0 /\ last.ev.kind \in ErrorKinds

\* The latest emit wrote exactly one record
OneRecord ==
    /\ Len(log) = Len(last.log) + 1
    /\ SubSeq(log, 1, Len(last.log)) = last.log

Record == log[Len(log)]

Triple == {"stage", "error_type", "error_code"}

-----------------------------------------------------------------------------
(* C1 *)

\* C1 (as stated): after the emit of any error variant, every
\* component_errors_total series the emit updated is labelled by command,
\* stage, error_type and error_code.
C1_AllErrorsCarryTriple ==
    AfterError =>
        /\ ChangedNamed("component_errors_total") # {}
        /\ \A k \in ChangedNamed("component_errors_total") :
              ({"command"} \cup Triple) \subseteq DOMAIN k.labels

\* C1 (amended): FailedError and FailedToSignalChild update one
\* component_errors_total series labelled by command, stage, error_type and
\* error_code, the code of an I/O error without one being the text
\* "unknown"; TimeoutError updates one series labelled by command, stage and
\* error_type only, with no error_code label.
C1_TripleExceptTimeout ==
    AfterError =>
        /\ Cardinality(ChangedNamed("component_errors_total")) = 1
        /\ \A k \in ChangedNamed("component_errors_total") :
              IF last.ev.kind = "ExecTimeoutError"
              THEN DOMAIN k.labels = {"command", "stage", "error_type"}
              ELSE /\ DOMAIN k.labels = {"command"} \cup Triple
                   /\ k.labels.error_code # ""
                   /\ (last.ev.kind = "ExecFailedError"
                          /\ last.ev.error.code = None)
                         => k.labels.error_code = "unknown"

C1_Witness ==
    /\ After("ExecFailedError")
    /\ last.ev.error.code = None
    /\ \E k \in ChangedNamed("component_errors_total") :
          k.labels.error_code = "unknown" /\ Delta(k) = 1

-----------------------------------------------------------------------------
(* C2 *)

\* C2: once emits have completed, events_in_total equals
\* component_received_events_total for every command, the total of
\* processing_errors_total equals the total of component_errors_total, and
\* the latest emit added as much to each deprecated metric as to its
\* current counterpart.
C2_DeprecatedMirrorsCurrent ==
    /\ \A k \in KeysNamed(counters, "events_in_total") :
          counters[k] = CounterValue(counters,
              Key("component_received_events_total", k.labels))
    /\ \A k \in KeysNamed(counters, "component_received_events_total") :
          counters[k] = CounterValue(counters,
              Key("events_in_total", k.labels))
    /\ Total(counters, "processing_errors_total")
          = Total(counters, "component_errors_total")
    /\ last.id # 0 =>
          /\ DeltaTotal("processing_errors_total")
                = DeltaTotal("component_errors_total")
          /\ DeltaTotal("events_in_total")
                = DeltaTotal("component_received_events_total")

C2_Witness ==
    /\ Total(counters, "processing_errors_total") = 1
    /\ Total(counters, "events_in_total") = 10
    /\ \E k \in KeysNamed(counters, "processing_errors_total") :
          "command_code" \in DOMAIN k.labels

-----------------------------------------------------------------------------
(* C3 *)

\* C3: after the emit of FailedToSignalChild the error_code label of the
\* component_errors_total series it updated and the error_code log field
\* are "errno_n" for SignalError with errno number n ("errno_5" for 5),
\* "failed_to_marshal_pid" for FailedToMarshalPid and "no_pid" for NoPid.
C3_SignalErrorCodes ==
    After("ExecFailedToSignalChild") =>
        LET expected ==
                CASE last.ev.error.tag = "SignalError" ->
                        "errno_" \o UnsignedToString(last.ev.error.errno.raw)
                  [] last.ev.error.tag = "FailedToMarshalPid" ->
                        "failed_to_marshal_pid"
                  [] last.ev.error.tag = "NoPid" -> "no_pid"
        IN  /\ Record.fields.error_code = expected
            /\ \A k \in ChangedNamed("component_errors_total") :
                  k.labels.error_code = expected

-----------------------------------------------------------------------------
(* C4 *)

\* C4: one emit of EventsReceived adds exactly count to
\* component_received_events_total and to events_in_total and exactly
\* byte_size to component_received_event_bytes_total, all labelled by the
\* command alone, touches no other counter, writes its log record, and with
\* a zero count or byte_size still registers all three series.
C4_EventsReceivedCounts ==
    After("ExecEventsReceived") =>
        LET labels == [command |-> last.ev.command]
            events == Key("component_received_events_total", labels)
            bytes == Key("component_received_event_bytes_total", labels)
            old == Key("events_in_total", labels)
        IN  /\ {events, bytes, old} \subseteq DOMAIN counters
            /\ Delta(events) = last.ev.count
            /\ Delta(bytes) = last.ev.byte_size
            /\ Delta(old) = last.ev.count
            /\ Changed \subseteq {events, bytes, old}
            /\ OneRecord
            /\ histograms = last.histograms

C4_Witness ==
    /\ After("ExecEventsReceived")
    /\ last.ev.count = 0
    /\ last.ev.byte_size = 0
    /\ last.counters = <<>>
    /\ Cardinality(DOMAIN counters) = 3
    /\ \A k \in DOMAIN counters : counters[k] = 0
    /\ Len(log) = 1

-----------------------------------------------------------------------------
(* C5 *)

\* C5 (as stated): every emit writes exactly one log record, at INFO for
\* EventsReceived and CommandExecuted and at ERROR for the error variants.
C5_InfoOrError ==
    last.id # 0 =>
        /\ OneRecord
        /\ Record.level =
              IF last.ev.kind \in ErrorKinds THEN "ERROR" ELSE "INFO"

\* C5 (amended): every emit writes exactly one log record, at TRACE (the
\* lowest level, below INFO) for EventsReceived and CommandExecuted and at
\* ERROR for FailedError, TimeoutError and FailedToSignalChild.
C5_TraceOrError ==
    last.id # 0 =>
        /\ OneRecord
        /\ Record.level =
              IF last.ev.kind \in ErrorKinds THEN "ERROR" ELSE "TRACE"

C5_Witness ==
    /\ After("ExecCommandExecuted")
    /\ Len(log) = 2
    /\ log[1].level = "ERROR"
    /\ log[2].level = "TRACE"

-----------------------------------------------------------------------------
(* C6 *)

ErrorTypeOf(kind) ==
    IF kind = "ExecTimeoutError" THEN "timed_out" ELSE "command_failed"

\* C6: every emit of an error variant adds exactly 1 to one series of
\* component_errors_total and exactly 1 to one series of
\* processing_errors_total and changes no other counter; both series carry
\* stage "receiving" and error_type "timed_out" for TimeoutError and
\* "command_failed" for FailedError and FailedToSignalChild; no series and
\* no log record ever carries another stage or error_type.
C6_ErrorCountersByOne ==
    /\ AfterError =>
          /\ DeltaTotal("component_errors_total") = 1
          /\ DeltaTotal("processing_errors_total") = 1
          /\ Cardinality(Changed) = 2
          /\ \A k \in Changed :
                /\ k.name \in {"component_errors_total",
                               "processing_errors_total"}
                /\ Delta(k) = 1
                /\ k.labels.stage = "receiving"
                /\ k.labels.error_type = ErrorTypeOf(last.ev.kind)
          /\ OneRecord
          /\ Record.fields.stage = "receiving"
          /\ Record.fields.error_type = ErrorTypeOf(last.ev.kind)
    /\ \A k \in DOMAIN counters :
          /\ "stage" \in DOMAIN k.labels => k.labels.stage = "receiving"
          /\ "error_type" \in DOMAIN k.labels =>
                k.labels.error_type \in {"command_failed", "timed_out"}
    /\ \A i \in 1..Len(log) :
          /\ "stage" \in DOMAIN log[i].fields =>
                log[i].fields.stage = "receiving"
          /\ "error_type" \in DOMAIN log[i].fields =>
                log[i].fields.error_type \in {"command_failed", "timed_out"}

C6_Witness ==
    /\ After("ExecTimeoutError")
    /\ last.ev.elapsed_seconds = 3600
    /\ \E k \in ChangedNamed("processing_errors_total") :
          k.labels.error_type = "timed_out" /\ counters[k] = 2

-----------------------------------------------------------------------------
(* C7 *)

\* C7: after the emit of CommandExecuted the exit_status text is the
\* decimal rendering of the exit code ("0" for Some(0), "-12" for
\* Some(-12)) and "unknown" for None, never empty; the log field
\* exit_status, the label of the one command_executed_total series changed
\* (by 1) and the label of the one histogram observation added all carry
\* this text, and the observation is the whole exec_duration.
C7_ExitStatusText ==
    After("ExecCommandExecuted") =>
        LET text == Record.fields.exit_status
            labels == [command |-> last.ev.command, exit_status |-> text]
            d == last.ev.exec_duration
        IN  /\ OneRecord
            /\ text # ""
            /\ last.ev.exit_status = None <=> text = "unknown"
            /\ last.ev.exit_status = Some(0) <=> text = "0"
            /\ last.ev.exit_status = Some(-12) <=> text = "-12"
            /\ Changed = {Key("command_executed_total", labels)}
            /\ Delta(Key("command_executed_total", labels)) = 1
            /\ Len(histograms) = Len(last.histograms) + 1
            /\ SubSeq(histograms, 1, Len(last.histograms)) = last.histograms
            /\ histograms[Len(histograms)] =
                  [name |-> "command_execution_duration_seconds",
                   value |-> d.secs * 1000000000 + d.nanos,
                   labels |-> labels]

C7_Witness ==
    /\ After("ExecCommandExecuted")
    /\ last.ev.exit_status = None
    /\ last.ev.exec_duration.nanos = 1500000
    /\ Record.fields.exit_status = "unknown"
    /\ histograms[Len(histograms)].labels.exit_status = "unknown"
    /\ histograms[Len(histograms)].value = 1001500000

-----------------------------------------------------------------------------
(* C8 *)

\* C8: no constructed event value is emitted more than once: a value that
\* has been emitted is no longer held by the caller, and the number of
\* emissions never exceeds the number of values constructed.
C8_EmittedAtMostOnce ==
    /\ \A id \in DOMAIN emitted : emitted[id] <= 1
    /\ \A h \in live : emitted[h.id] = 0
    /\ Len(done) <= nextId
    /\ Len(log) <= nextId

C8_Witness ==
    /\ nextId = 2
    /\ emitted[1] = 1
    /\ emitted[2] = 0
    /\ \E h \in live : h.id = 2 /\ h.ev = last.ev

-----------------------------------------------------------------------------
(* C9 *)

\* Fields the claim lists for each variant
ClaimedFields(kind) ==
    CASE kind = "ExecEventsReceived" -> {"count", "byte_size", "command"}
      [] kind = "ExecFailedError" ->
            {"command", "error", "error_type", "error_code", "stage"}
      [] kind = "ExecTimeoutError" ->
            {"command", "elapsed_seconds", "error", "error_type", "stage"}
      [] kind = "ExecCommandExecuted" ->
            {"command", "exit_status", "exec_duration"}
      [] kind = "ExecFailedToSignalChild" ->
            {"command", "error", "error_code", "error_type", "stage"}

\* Fields the records carry
WrittenFields(kind) ==
    CASE kind = "ExecEventsReceived" -> {"count", "byte_size", "command"}
      [] kind = "ExecFailedError" ->
            {"command", "error", "error_type", "error_code", "stage"}
      [] kind = "ExecTimeoutError" ->
            {"command", "elapsed_seconds", "error", "error_type", "stage"}
      [] kind = "ExecCommandExecuted" ->
            {"command", "exit_status", "elapsed_millis"}
      [] kind = "ExecFailedToSignalChild" ->
            {"command", "error_code", "error_type", "stage"}

\* C9 (as stated): the record an emit writes has every field the claim
\* lists for the variant as a named field.
C9_AllFieldsNamed ==
    last.id # 0 =>
        /\ OneRecord
        /\ ClaimedFields(last.ev.kind) \subseteq DOMAIN Record.fields

\* C9 (amended): the record has exactly the named fields count, byte_size,
\* command for EventsReceived; command, error, error_type, error_code,
\* stage for FailedError; command, elapsed_seconds, error, error_type,
\* stage for TimeoutError; command, exit_status, elapsed_millis for
\* CommandExecuted, where elapsed_millis is exec_duration in whole
\* milliseconds and there is no exec_duration field; command, error_code,
\* error_type, stage for FailedToSignalChild, whose error appears only as
\* text at the end of the message and not as a named field.
C9_FieldsWritten ==
    last.id # 0 =>
        /\ OneRecord
        /\ DOMAIN Record.fields = WrittenFields(last.ev.kind)
        /\ last.ev.kind = "ExecCommandExecuted" =>
              Record.fields.elapsed_millis =
                  IF last.ev.exec_duration.nanos = 0 THEN "0" ELSE "1001"
        /\ last.ev.kind = "ExecTimeoutError" =>
              Record.fields.elapsed_seconds =
                  IF last.ev.elapsed_seconds = 0 THEN "0" ELSE "3600"
        /\ (last.ev.kind = "ExecFailedToSignalChild"
               /\ last.ev.error.tag = "NoPid") =>
              Record.message =
                  "Failed to send SIGTERM to child, aborting early: child had no pid"

C9_Witness ==
    /\ Len(log) = 2
    /\ DOMAIN log[1].fields = {"command", "error_code", "error_type", "stage"}
    /\ log[1].message =
          "Failed to send SIGTERM to child, aborting early: child had no pid"
    /\ DOMAIN log[2].fields = {"command", "exit_status", "elapsed_millis"}
    /\ log[2].fields.elapsed_millis = "1001"

-----------------------------------------------------------------------------
(* C10 *)

\* What the calls of one emit add to a counter series
RECURSIVE CallsAdd(_, _)
CallsAdd(calls, key) ==
    IF calls = <<>> THEN 0
    ELSE (IF Head(calls).op = "counter" /\ CounterKey(Head(calls)) = key
          THEN Head(calls).value ELSE 0) + CallsAdd(Tail(calls), key)

RECURSIVE EventsAdd(_, _)
EventsAdd(evs, key) ==
    IF evs = <<>> THEN 0
    ELSE CallsAdd(Emit(Head(evs)), key) + EventsAdd(Tail(evs), key)

\* The series the emits of evs update
SeriesOf(evs) ==
    UNION { {CounterKey(Emit(evs[i])[j]) :
                j \in {n \in DOMAIN Emit(evs[i]) :
                          Emit(evs[i])[n].op = "counter"}} :
            i \in DOMAIN evs }

Reverse(seq) == [i \in 1..Len(seq) |-> seq[Len(seq) + 1 - i]]

\* The counters after the emits of evs run one after another
RECURSIVE Sequential(_, _)
Sequential(s, evs) ==
    IF evs = <<>> THEN s.counters
    ELSE Sequential(ApplyCalls(s, Emit(Head(evs))), Tail(evs))

NoSinks == [log |-> <<>>, counters |-> <<>>, histograms |-> <<>>]

\* C10: when every emit that was entered has returned, whatever the
\* interleaving of their calls, the registry holds exactly the series the
\* emitted events update, each at the sum of the events' increments, which
\* are the values the same emits leave when run one after another in either
\* order, and the log holds one record for each emit.
C10_InterleavedSums ==
    DOMAIN tasks = {} =>
        /\ DOMAIN counters = SeriesOf(done)
        /\ \A k \in DOMAIN counters : counters[k] = EventsAdd(done, k)
        /\ counters = Sequential(NoSinks, done)
        /\ counters = Sequential(NoSinks, Reverse(done))
        /\ Len(log) = Len(done)

C10_Witness ==
    /\ DOMAIN tasks = {}
    /\ Len(done) = 2
    /\ done[1].kind = "ExecEventsReceived" /\ done[1].count = 10
    /\ done[2].kind = "ExecEventsReceived" /\ done[2].count = 1
    /\ log[1].fields.count = "1"
    /\ counters[Key("component_received_events_total",
                    [command |-> "echo"])] = 11

=============================================================================
